---- MODULE Spec2Model ----
(***************************************************************************)
(* The viewfinder region model of say-cheese.js: the drag handlers that    *)
(* initDynamicViewfinder installs on the canvas (start, draw, stop), the   *)
(* viewfinder they commit, resetViewfinder and takeSnapshot, with the      *)
(* camera start-up that leads to setupCanvas.                              *)
(*                                                                         *)
(* JavaScript values are modelled as tagged records, so that a missing     *)
(* property (undefined) and NaN are values of the model like any number.   *)
(* The viewfinder is a reference: after stop it is the handlers' own box   *)
(* object, not a copy of it.                                               *)
(*                                                                         *)
(* Spec runs one instance. PairSpec runs it interleaved with a second      *)
(* instance on the same page, whose handlers work on a closure and on      *)
(* fields of their own.                                                    *)
(***************************************************************************)
EXTENDS Integers, Sequences, FiniteSets, TLC

\* Bounds of the model: the size of the video element, which is also the size
\* of the canvas the pointer events are delivered to, the number of snapshots
\* taken in one run, the number of method calls and canvas events in one run,
\* and that number in a run of two instances.
SurfaceWidth == 2
SurfaceHeight == 1
MaxSnapshots == 2
MaxCalls == 7
MaxPairCalls == 4

VARIABLES
  phase,              \* where the camera start-up stands
  dynamicViewfinder,  \* this.options.dynamicViewfinder
  box,                \* the box object of initDynamicViewfinder's closure
  isDragging,         \* the isDragging flag of the same closure
  viewfinderIsBox,    \* this.viewfinder refers to the box object
  viewfinderLiteral,  \* the object this.viewfinder refers to otherwise
  snapshots,          \* this.snapshots
  emitted,            \* what the last call or event made this instance emit, in order
  calls,              \* how many method calls and canvas events the run has had
  other               \* a second instance, on a canvas of its own

vars == <<phase, dynamicViewfinder, box, isDragging, viewfinderIsBox,
          viewfinderLiteral, snapshots, emitted, calls, other>>

----------------------------------------------------------------------------
\* JavaScript values and the operators the code applies to them.

Num(n) == [t |-> "number", n |-> n]
Undefined == [t |-> "undefined", n |-> 0]
NaN == [t |-> "NaN", n |-> 0]

IsNumber(v) == v.t = "number"

\* a || b: a when it is truthy; 0, NaN and undefined are falsy.
Or(a, b) == IF IsNumber(a) /\ a.n # 0 THEN a ELSE b

\* a - b: undefined converts to NaN, and NaN propagates.
Minus(a, b) == IF IsNumber(a) /\ IsNumber(b) THEN Num(a.n - b.n) ELSE NaN

MathAbs(v) == IF IsNumber(v) THEN Num(IF v.n < 0 THEN -v.n ELSE v.n) ELSE NaN

MathMin(a, b) ==
  IF IsNumber(a) /\ IsNumber(b) THEN Num(IF a.n < b.n THEN a.n ELSE b.n) ELSE NaN

\* Assigning canvas.width or canvas.height: the attribute is an unsigned long,
\* so NaN is stored as 0; reading it back gives the stored number.
CanvasSize(v) == IF IsNumber(v) THEN v ELSE Num(0)

\* An object with none of the six properties set: {}.
EmptyObject ==
  [startX |-> Undefined, startY |-> Undefined, endX |-> Undefined,
   endY |-> Undefined, width |-> Undefined, height |-> Undefined]

----------------------------------------------------------------------------
\* The video element's size and the pointer events of the canvas.

videoOffsetWidth == Num(SurfaceWidth)
videoOffsetHeight == Num(SurfaceHeight)

\* The pointer is at an edge of the surface: left or right, top or bottom. That
\* gives extents of either sign and of zero on each axis.
XS == {Num(0), videoOffsetWidth}
YS == {Num(0), videoOffsetHeight}

Points == [x : XS, y : YS]

\* Where the canvas lies in the layer the browser measures layerX and layerY
\* from: at the layer's origin, or away from it.
LayerOrigins == {[x |-> 0, y |-> 0], [x |-> SurfaceWidth, y |-> SurfaceHeight]}

\* The event of a pointer at the canvas point p, the canvas lying at o.
eventAt(p, o) ==
  [offsetX |-> p.x, offsetY |-> p.y,
   layerX |-> Num(p.x.n + o.x), layerY |-> Num(p.y.n + o.y)]

\* A mouse or touch event over the canvas, with the coordinates eventCoords reads.
Events == {eventAt(p, o) : p \in Points, o \in LayerOrigins}

eventCoords(evt) ==
  [x |-> Or(evt.offsetX, evt.layerX), y |-> Or(evt.offsetY, evt.layerY)]

\* this.viewfinder, dereferenced.
viewfinder == IF viewfinderIsBox THEN box ELSE viewfinderLiteral

\* this.trigger(evt, data) and callback.call(this, data), as entries of emitted.
trigger(name) == [kind |-> "trigger", name |-> name, data |-> <<>>]
triggerWith(name, data) == [kind |-> "trigger", name |-> name, data |-> <<data>>]
callbackWith(data) == [kind |-> "callback", name |-> "callback", data |-> <<data>>]

\* An entry of emitted together with this.snapshots as it stands when the entry's
\* handler or callback is called.
seeing(entry, collection) ==
  [kind |-> entry.kind, name |-> entry.name, data |-> entry.data,
   snapshots |-> collection]

\* What getUserMedia hands the error callback.
Details == {[name |-> "PERMISSION_DENIED"], [name |-> "NOT_SUPPORTED_ERROR"]}

\* A second instance as constructed, and once its own setupCanvas has run with
\* the dynamicViewfinder option set: the closure of its initDynamicViewfinder
\* call has an isDragging and a box of its own.
otherConstructed ==
  [started |-> FALSE, box |-> EmptyObject, isDragging |-> FALSE,
   viewfinderIsBox |-> FALSE, viewfinderLiteral |-> EmptyObject, snapshots |-> <<>>]

----------------------------------------------------------------------------
\* Construction and camera start-up.

Init ==
  /\ phase = "constructed"
  /\ dynamicViewfinder \in BOOLEAN
  /\ box = EmptyObject
  /\ isDragging = FALSE
  /\ viewfinderIsBox = FALSE
  /\ viewfinderLiteral = EmptyObject
  /\ snapshots = <<>>
  /\ emitted = <<>>
  /\ calls = 0
  /\ other = otherConstructed

\* One more method call or canvas event, within the run's bound.
called == calls < MaxCalls /\ calls' = calls + 1

\* SayCheese.prototype.start: asks for the camera.
SayCheese_start ==
  /\ phase = "constructed"
  /\ called
  /\ phase' = "requested"
  /\ emitted' = <<>>
  /\ UNCHANGED <<dynamicViewfinder, box, isDragging, viewfinderIsBox,
                 viewfinderLiteral, snapshots, other>>

\* The success callback: the video element is created and attached.
success ==
  /\ phase = "requested"
  /\ phase' = "video"
  /\ emitted' = <<>>
  /\ UNCHANGED <<dynamicViewfinder, box, isDragging, viewfinderIsBox,
                 viewfinderLiteral, snapshots, calls, other>>

\* The error callback triggering 'error' without its arguments.
errorWithoutDetail(detail) ==
  /\ phase = "requested"
  /\ phase' = "constructed"
  /\ emitted' = <<trigger("error")>>
  /\ UNCHANGED <<dynamicViewfinder, box, isDragging, viewfinderIsBox,
                 viewfinderLiteral, snapshots, calls, other>>

\* The error callback, also called when access is denied: the instance is as it
\* was before start, and start can be called again.
error(detail) ==
  /\ phase = "requested"
  /\ phase' = "constructed"
  /\ emitted' = <<triggerWith("error", detail)>>
  /\ UNCHANGED <<dynamicViewfinder, box, isDragging, viewfinderIsBox,
                 viewfinderLiteral, snapshots, calls, other>>

\* The object literal of initDefaultViewfinder.
initDefaultViewfinder ==
  [startX |-> Num(0), startY |-> Num(0),
   endX |-> videoOffsetWidth, endY |-> videoOffsetHeight,
   width |-> videoOffsetWidth, height |-> videoOffsetHeight]

\* loadedmetadata: the canvas is created, the default viewfinder installed and,
\* with the option set, initDynamicViewfinder creates its closure (isDragging
\* false, box {}) and registers start, stop and draw on the canvas.
setupCanvas ==
  /\ phase = "video"
  /\ phase' = "started"
  /\ viewfinderIsBox' = FALSE
  /\ viewfinderLiteral' = initDefaultViewfinder
  /\ isDragging' = FALSE
  /\ box' = EmptyObject
  /\ emitted' = <<trigger("start")>>
  /\ UNCHANGED <<dynamicViewfinder, snapshots, calls, other>>

\* The drag handlers registered whatever the option says.
listeningAlways == phase = "started"

\* The drag handlers exist once initDynamicViewfinder has registered them.
listening == phase = "started" /\ dynamicViewfinder

\* A mouse or touch event on a canvas that has no listener: setupCanvas did not
\* call initDynamicViewfinder, so no code runs.
noListener(evt) ==
  /\ phase = "started"
  /\ ~listening
  /\ called
  /\ emitted' = <<>>
  /\ UNCHANGED <<phase, dynamicViewfinder, box, isDragging, viewfinderIsBox,
                 viewfinderLiteral, snapshots, other>>

----------------------------------------------------------------------------
\* The drag handlers of initDynamicViewfinder.

\* What each handler does to the box object b.
startBox(b, evt) ==
  LET coords == eventCoords(evt) IN
  [b EXCEPT !.startX = coords.x, !.startY = coords.y]

stopBox(b, evt) ==
  LET coords == eventCoords(evt) IN
  [b EXCEPT !.endX = coords.x, !.endY = coords.y]

\* draw without its test of isDragging.
drawBoxAlways(b, dragging, evt) ==
  LET coords == eventCoords(evt) IN
  [b EXCEPT !.width = Minus(coords.x, b.startX),
            !.height = Minus(coords.y, b.startY)]

drawBox(b, dragging, evt) ==
  LET coords == eventCoords(evt) IN
  IF dragging
    THEN [b EXCEPT !.width = Minus(coords.x, b.startX),
                   !.height = Minus(coords.y, b.startY)]
    ELSE b

\* mousedown, touchstart.
start(evt) ==
  /\ listening
  /\ called
  /\ box' = startBox(box, evt)
  /\ isDragging' = TRUE
  /\ emitted' = <<>>
  /\ UNCHANGED <<phase, dynamicViewfinder, viewfinderIsBox, viewfinderLiteral,
                 snapshots, other>>

\* mouseup, touchend.
stop(evt) ==
  /\ listening
  /\ called
  /\ isDragging' = FALSE
  /\ box' = stopBox(box, evt)
  /\ viewfinderIsBox' = TRUE
  /\ emitted' = <<trigger("change")>>
  /\ UNCHANGED <<phase, dynamicViewfinder, viewfinderLiteral, snapshots, other>>

\* mousemove, touchmove.
draw(evt) ==
  /\ listening
  /\ called
  /\ box' = drawBox(box, isDragging, evt)
  /\ emitted' = <<>>
  /\ UNCHANGED <<phase, dynamicViewfinder, isDragging, viewfinderIsBox,
                 viewfinderLiteral, snapshots, other>>

----------------------------------------------------------------------------
\* resetViewfinder and takeSnapshot. Both use this.context or this.video, which
\* exist once setupCanvas has run; called earlier they throw before changing
\* anything.

\* resetViewfinder's literal with its extents taken from the wrong sides.
resetViewfinderObjectSwapped ==
  [startX |-> Num(0), startY |-> Num(0),
   endX |-> videoOffsetWidth, endY |-> videoOffsetHeight,
   width |-> videoOffsetHeight, height |-> videoOffsetWidth]

\* The object literal of resetViewfinder.
resetViewfinderObject ==
  [startX |-> Num(0), startY |-> Num(0),
   endX |-> videoOffsetWidth, endY |-> videoOffsetHeight,
   width |-> videoOffsetWidth, height |-> videoOffsetHeight]

resetViewfinder ==
  /\ phase = "started"
  /\ called
  /\ viewfinderIsBox' = FALSE
  /\ viewfinderLiteral' = resetViewfinderObject
  /\ emitted' = <<trigger("change")>>
  /\ UNCHANGED <<phase, dynamicViewfinder, box, isDragging, snapshots, other>>

\* The snapshot canvas takeSnapshot makes of the viewfinder vf: its size, and the
\* arguments of ctx.drawImage(video, sx, sy, sw, sh, dx, dy, dw, dh).
snapshotOf(vf) ==
  LET w == CanvasSize(MathAbs(vf.width))
      h == CanvasSize(MathAbs(vf.height))
  IN [width |-> w, height |-> h,
      sx |-> MathMin(vf.startX, vf.endX), sy |-> MathMin(vf.startY, vf.endY),
      sw |-> w, sh |-> h,
      dx |-> Num(0), dy |-> Num(0), dw |-> w, dh |-> h]

\* takeSnapshot putting the new snapshot first (unshift for push).
takeSnapshotUnshift(callback) ==
  /\ phase = "started"
  /\ called
  /\ Len(snapshots) < MaxSnapshots
  /\ LET snapshot == snapshotOf(viewfinder) IN
       /\ snapshots' = <<snapshot>> \o snapshots
       /\ emitted' = <<seeing(triggerWith("snapshot", snapshot), snapshots')>>
                       \o (IF callback
                             THEN <<seeing(callbackWith(snapshot), snapshots')>>
                             ELSE <<>>)
  /\ UNCHANGED <<phase, dynamicViewfinder, box, isDragging, viewfinderIsBox,
                 viewfinderLiteral, other>>

\* takeSnapshot triggering 'snapshot' before it pushes the snapshot.
takeSnapshotTriggerFirst(callback) ==
  /\ phase = "started"
  /\ called
  /\ Len(snapshots) < MaxSnapshots
  /\ LET snapshot == snapshotOf(viewfinder) IN
       /\ snapshots' = Append(snapshots, snapshot)
       /\ emitted' = <<seeing(triggerWith("snapshot", snapshot), snapshots)>>
                       \o (IF callback
                             THEN <<seeing(callbackWith(snapshot), snapshots')>>
                             ELSE <<>>)
  /\ UNCHANGED <<phase, dynamicViewfinder, box, isDragging, viewfinderIsBox,
                 viewfinderLiteral, other>>

\* The snapshot is pushed, then 'snapshot' is triggered with it, then the
\* callback, if one was given, is called with it: both find it in this.snapshots.
takeSnapshot(callback) ==
  /\ phase = "started"
  /\ called
  /\ Len(snapshots) < MaxSnapshots
  /\ LET snapshot == snapshotOf(viewfinder) IN
       /\ snapshots' = Append(snapshots, snapshot)
       /\ emitted' = <<seeing(triggerWith("snapshot", snapshot), snapshots')>>
                       \o (IF callback
                             THEN <<seeing(callbackWith(snapshot), snapshots')>>
                             ELSE <<>>)
  /\ UNCHANGED <<phase, dynamicViewfinder, box, isDragging, viewfinderIsBox,
                 viewfinderLiteral, other>>

----------------------------------------------------------------------------
Next ==
  \/ SayCheese_start
  \/ success
  \/ \E detail \in Details : error(detail)
  \/ setupCanvas
  \/ \E evt \in Events : noListener(evt)
  \/ \E evt \in Events : start(evt)
  \/ \E evt \in Events : draw(evt)
  \/ \E evt \in Events : stop(evt)
  \/ resetViewfinder
  \/ \E callback \in BOOLEAN : takeSnapshot(callback)

Spec == Init /\ [][Next]_vars

----------------------------------------------------------------------------
\* Two instances on one page. The second one's methods and the handlers on its
\* canvas are the same code run with the second instance as this and with the
\* isDragging and box of its own initDynamicViewfinder call.

pairCalled == calls < MaxPairCalls /\ calls' = calls + 1

\* The first instance's own variables.
instance == <<phase, dynamicViewfinder, box, isDragging, viewfinderIsBox,
              viewfinderLiteral, snapshots, emitted>>

\* Start-up of the second instance, through to its setupCanvas.
otherSetupCanvas ==
  /\ ~other.started
  /\ other' = [other EXCEPT !.started = TRUE,
                            !.viewfinderIsBox = FALSE,
                            !.viewfinderLiteral = initDefaultViewfinder,
                            !.isDragging = FALSE,
                            !.box = EmptyObject]
  /\ UNCHANGED <<instance, calls>>

\* start on the second canvas, were box a variable all closures share.
otherStartSharedBox(evt) ==
  /\ other.started
  /\ pairCalled
  /\ box' = startBox(box, evt)
  /\ other' = [other EXCEPT !.isDragging = TRUE]
  /\ UNCHANGED <<phase, dynamicViewfinder, isDragging, viewfinderIsBox,
                 viewfinderLiteral, snapshots, emitted>>

otherStart(evt) ==
  /\ other.started
  /\ pairCalled
  /\ other' = [other EXCEPT !.box = startBox(@, evt), !.isDragging = TRUE]
  /\ UNCHANGED instance

otherStop(evt) ==
  /\ other.started
  /\ pairCalled
  /\ other' = [other EXCEPT !.isDragging = FALSE,
                            !.box = stopBox(@, evt),
                            !.viewfinderIsBox = TRUE]
  /\ UNCHANGED instance

otherDraw(evt) ==
  /\ other.started
  /\ pairCalled
  /\ other' = [other EXCEPT !.box = drawBox(@, other.isDragging, evt)]
  /\ UNCHANGED instance

otherResetViewfinder ==
  /\ other.started
  /\ pairCalled
  /\ other' = [other EXCEPT !.viewfinderIsBox = FALSE,
                            !.viewfinderLiteral = resetViewfinderObject]
  /\ UNCHANGED instance

\* this.viewfinder of the second instance, dereferenced.
otherViewfinder == IF other.viewfinderIsBox THEN other.box ELSE other.viewfinderLiteral

otherTakeSnapshot ==
  /\ other.started
  /\ pairCalled
  /\ Len(other.snapshots) < MaxSnapshots
  /\ other' = [other EXCEPT !.snapshots = Append(@, snapshotOf(otherViewfinder))]
  /\ UNCHANGED instance

\* The first instance's calls and events stay within the bound of a run of two.
within == calls < MaxPairCalls

PairNext ==
  \/ within /\ SayCheese_start
  \/ within /\ success
  \/ within /\ \E detail \in Details : error(detail)
  \/ within /\ setupCanvas
  \/ within /\ \E evt \in Events : noListener(evt)
  \/ within /\ \E evt \in Events : start(evt)
  \/ within /\ \E evt \in Events : draw(evt)
  \/ within /\ \E evt \in Events : stop(evt)
  \/ within /\ resetViewfinder
  \/ within /\ \E callback \in BOOLEAN : takeSnapshot(callback)
  \/ otherSetupCanvas
  \/ \E evt \in Events : otherStart(evt)
  \/ \E evt \in Events : otherDraw(evt)
  \/ \E evt \in Events : otherStop(evt)
  \/ otherResetViewfinder
  \/ otherTakeSnapshot

PairSpec == Init /\ [][PairNext]_vars

----------------------------------------------------------------------------
\* What the claims speak of.

\* The point a handler is given: the translated coordinates of its event.
pointOf(evt) == eventCoords(evt)

\* The anchor of the session in progress: the point of the begin that opened it.
anchor == [x |-> box.startX, y |-> box.startY]

changeEmitted(e) == \E i \in 1..Len(e) : e[i].kind = "trigger" /\ e[i].name = "change"

\* The rectangle a drag from p0 to pn is to commit: signed extents, end - start.
rectangleOf(p0, pn) ==
  [startX |-> p0.x, startY |-> p0.y, endX |-> pn.x, endY |-> pn.y,
   width |-> Minus(pn.x, p0.x), height |-> Minus(pn.y, p0.y)]

\* C1: an end that closes a session begun at p0 commits the rectangle from p0 to
\* the end point pn with width = pn.x - p0.x and height = pn.y - p0.y, whatever
\* the update points were.
C1_CommitSpansBeginToEnd ==
  [][\A evt \in Events :
       (isDragging /\ stop(evt)) => viewfinder' = rectangleOf(anchor, pointOf(evt))]_vars

\* C2: an end with no session active leaves the committed rectangle as it was
\* and emits no change notification.
C2_StrayEndIsNoOp ==
  [][\A evt \in Events :
       (~isDragging /\ stop(evt)) =>
         (viewfinder' = viewfinder /\ ~changeEmitted(emitted'))]_vars

\* C3: a begin during an active session is ignored: the anchor stays at the
\* point of the first begin.
C3_SecondBeginKeepsAnchor ==
  [][\A evt \in Events :
       (isDragging /\ start(evt)) =>
         (box'.startX = box.startX /\ box'.startY = box.startY)]_vars

\* C4: begin and update leave every field of the committed rectangle as it was
\* before the gesture, in the first gesture and in every later one.
C4_DragInProgressNotExposed ==
  [][\A evt \in Events :
       (start(evt) \/ (isDragging /\ draw(evt))) => viewfinder' = viewfinder]_vars

\* The last snapshot of a collection.
lastOf(c) == c[Len(c)]

\* The state right after an end has committed a gesture that a begin opened.
justCommitted ==
  viewfinderIsBox /\ ~isDragging /\ changeEmitted(emitted) /\ IsNumber(box.startX)

\* C5: extract after a completed drag from p0 to pn gives a snapshot of size
\* |pn.x - p0.x| by |pn.y - p0.y|, read from (min(p0.x, pn.x), min(p0.y, pn.y))
\* and drawn at (0,0).
C5_SnapshotSpansDrag ==
  [][\A callback \in BOOLEAN :
       (justCommitted /\ takeSnapshot(callback)) =>
         LET s == lastOf(snapshots')
             p0 == [x |-> viewfinder.startX, y |-> viewfinder.startY]
             pn == [x |-> viewfinder.endX, y |-> viewfinder.endY]
         IN /\ s.width = MathAbs(Minus(pn.x, p0.x))
            /\ s.height = MathAbs(Minus(pn.y, p0.y))
            /\ s.sx = MathMin(p0.x, pn.x)
            /\ s.sy = MathMin(p0.y, pn.y)
            /\ s.dx = Num(0)
            /\ s.dy = Num(0)]_vars

\* The event that hands a handler the point p.
eventOf(p) == eventAt(p, [x |-> 0, y |-> 0])

\* The update points of a gesture: none, one or two.
UpdateSeqs ==
  {<<>>} \cup {<<p>> : p \in Points} \cup {<<p, q>> : p \in Points, q \in Points}

RECURSIVE drawAll(_, _)
drawAll(b, updates) ==
  IF updates = <<>> THEN b
  ELSE drawAll(drawBox(b, TRUE, eventOf(Head(updates))), Tail(updates))

\* The box after a gesture begun at a, updated at the points of updates and ended
\* at z, starting with the box b.
gestureBox(b, a, updates, z) ==
  stopBox(drawAll(startBox(b, eventOf(a)), updates), eventOf(z))

\* The source region of the frame a snapshot was read from.
crop(s) == [sx |-> s.sx, sy |-> s.sy, sw |-> s.sw, sh |-> s.sh]

\* C6: from any state, a gesture from a to b and a gesture from b to a, with any
\* update points, make extract read the same source region.
C6_ReversedDragSameCrop ==
  listening =>
    \A a \in Points, b \in Points, u1 \in UpdateSeqs, u2 \in UpdateSeqs :
      crop(snapshotOf(gestureBox(box, a, u1, b)))
        = crop(snapshotOf(gestureBox(box, b, u2, a)))

\* C7: every snapshot extract produces has width = abs(rectangle.width) and
\* height = abs(rectangle.height) of the committed rectangle, both non-negative.
C7_SnapshotSizeIsAbsExtent ==
  [][\A callback \in BOOLEAN :
       takeSnapshot(callback) =>
         LET s == lastOf(snapshots') IN
         /\ s.width = MathAbs(viewfinder.width)
         /\ s.height = MathAbs(viewfinder.height)
         /\ s.width.n >= 0
         /\ s.height.n >= 0]_vars

\* The full-surface rectangle and the snapshot extract makes of it.
origin == [x |-> Num(0), y |-> Num(0)]
fullSurface == rectangleOf(origin, [x |-> Num(SurfaceWidth), y |-> Num(SurfaceHeight)])
fullSnapshot ==
  [width |-> Num(SurfaceWidth), height |-> Num(SurfaceHeight),
   sx |-> Num(0), sy |-> Num(0), sw |-> Num(SurfaceWidth), sh |-> Num(SurfaceHeight),
   dx |-> Num(0), dy |-> Num(0), dw |-> Num(SurfaceWidth), dh |-> Num(SurfaceHeight)]

\* The state right after resetViewfinder: stop is the only other handler that
\* triggers change, and it leaves this.viewfinder referring to the box.
justReset == phase = "started" /\ ~viewfinderIsBox /\ changeEmitted(emitted)

\* The snapshot notifications among what a handler emitted.
snapshotNotifications(e) ==
  {i \in 1..Len(e) : e[i].kind = "trigger" /\ e[i].name = "snapshot"}

\* C9: resetViewfinder, in whatever state it is called, makes the committed
\* rectangle {0, 0, W, H, W, H} and emits exactly one change notification, and
\* an extract right after it appends a W x H snapshot read from (0,0).
C9_ResetInstallsFullSurface ==
  [][/\ resetViewfinder =>
          (viewfinder' = fullSurface /\ emitted' = <<trigger("change")>>)
     /\ \A callback \in BOOLEAN :
          (justReset /\ takeSnapshot(callback)) =>
            lastOf(snapshots') = fullSnapshot]_vars

\* C9 witness: a full-surface snapshot taken after a reset that was called while
\* a drag was active and after an earlier drag had been committed.
C9_Witness ==
  /\ isDragging
  /\ ~viewfinderIsBox
  /\ IsNumber(box.endX)
  /\ IsNumber(box.width)
  /\ box # fullSurface
  /\ snapshotNotifications(emitted) # {}
  /\ lastOf(snapshots) = fullSnapshot

\* C10: the collection only grows at its end: every step keeps the earlier
\* snapshots as they were, an extract appends exactly one and emits exactly one
\* snapshot notification, which carries it, and no other handler changes the
\* collection or emits a snapshot notification.
C10_SnapshotsAppendOnly ==
  [][/\ Len(snapshots') >= Len(snapshots)
     /\ SubSeq(snapshots', 1, Len(snapshots)) = snapshots
     /\ \A callback \in BOOLEAN :
          takeSnapshot(callback) =>
            /\ Len(snapshots') = Len(snapshots) + 1
            /\ Cardinality(snapshotNotifications(emitted')) = 1
            /\ \A i \in snapshotNotifications(emitted') :
                 emitted'[i].data = <<lastOf(snapshots')>>
     /\ (\A callback \in BOOLEAN : ~takeSnapshot(callback)) =>
          (snapshots' = snapshots /\ snapshotNotifications(emitted') = {})]_vars

\* C10 witness: two different snapshots in the collection, in the order taken
\* (the full surface first), with a later drag in progress whose rectangle is
\* that of neither.
C10_Witness ==
  /\ Len(snapshots) = 2
  /\ snapshots[1] = fullSnapshot
  /\ snapshots[2] # fullSnapshot
  /\ isDragging
  /\ viewfinderIsBox
  /\ snapshotOf(viewfinder) # snapshots[1]
  /\ snapshotOf(viewfinder) # snapshots[2]

\* C11: with the dynamicViewfinder option off, a mouse or touch event on the
\* canvas changes neither the committed rectangle nor the collection and emits
\* nothing; from start on the committed rectangle is {0, 0, W, H, W, H}, and
\* only resetViewfinder emits change.
C11_StaticViewfinderStaysFull ==
  [][~dynamicViewfinder =>
       /\ (phase' = "started") => (viewfinder' = fullSurface)
       /\ \A evt \in Events :
            noListener(evt) =>
              (viewfinder' = viewfinder /\ snapshots' = snapshots /\ emitted' = <<>>)
       /\ changeEmitted(emitted') => resetViewfinder]_vars

\* C11 witness: the option is off and, since start, the canvas has had two events
\* (only an event on a canvas without listeners leaves nothing emitted there).
C11_Witness ==
  /\ ~dynamicViewfinder
  /\ phase = "started"
  /\ calls >= 3
  /\ emitted = <<>>
  /\ viewfinder = fullSurface

\* C12: the rectangle a gesture commits depends on that gesture's own begin,
\* update and end points only: in whatever state an instance is, a gesture
\* commits there what it commits on an instance that has had no gesture yet, a
\* begin directly followed by an end included.
C12_CommitIgnoresEarlierGestures ==
  listening =>
    \A a \in Points, z \in Points, updates \in UpdateSeqs :
      gestureBox(box, a, updates, z) = gestureBox(EmptyObject, a, updates, z)

\* C13: on a started instance change is emitted exactly by an end that closes an
\* active session and by resetViewfinder, once each; begin, update and extract
\* emit none; and a step changes the committed rectangle only if it emits change.
C13_ChangeExactlyOnReplace ==
  [][phase = "started" =>
       /\ changeEmitted(emitted')
            <=> ((isDragging /\ \E evt \in Events : stop(evt)) \/ resetViewfinder)
       /\ changeEmitted(emitted') => (emitted' = <<trigger("change")>>)
       /\ (viewfinder' # viewfinder) => changeEmitted(emitted')]_vars

\* C14: one extract appends the snapshot, then emits the snapshot notification
\* carrying it, then, only if a callback was given, calls the callback with the
\* same snapshot, all within the one call; the notification's handler and the
\* callback find the new snapshot as the last element of the collection.
C14_AppendThenNotifyThenCallback ==
  [][\A callback \in BOOLEAN :
       takeSnapshot(callback) =>
         /\ Len(snapshots') = Len(snapshots) + 1
         /\ Len(emitted') = (IF callback THEN 2 ELSE 1)
         /\ emitted'[1].kind = "trigger"
         /\ emitted'[1].name = "snapshot"
         /\ emitted'[1].snapshots = snapshots'
         /\ emitted'[1].data = <<lastOf(emitted'[1].snapshots)>>
         /\ callback =>
              /\ emitted'[2].kind = "callback"
              /\ emitted'[2].snapshots = snapshots'
              /\ emitted'[2].data = emitted'[1].data]_vars

\* C14 witness: an extract with a callback has just added a second snapshot that
\* differs from the first; notification and callback both carried the second.
C14_Witness ==
  /\ Len(snapshots) = 2
  /\ snapshots[1] # snapshots[2]
  /\ Len(emitted) = 2
  /\ emitted[1].name = "snapshot"
  /\ emitted[2].kind = "callback"
  /\ emitted[1].data = <<snapshots[2]>>
  /\ emitted[2].data = <<snapshots[2]>>

\* C15: an update with no session active changes nothing and emits nothing; an
\* update during a session sets width to point.x - startX and height to
\* point.y - startY, of either sign, and leaves startX, startY, endX and endY.
C15_UpdateOnlyDuringSession ==
  [][\A evt \in Events :
       draw(evt) =>
         IF isDragging
           THEN /\ IsNumber(box'.width)
                /\ IsNumber(box'.height)
                /\ box'.width.n = pointOf(evt).x.n - box.startX.n
                /\ box'.height.n = pointOf(evt).y.n - box.startY.n
                /\ box'.startX = box.startX
                /\ box'.startY = box.startY
                /\ box'.endX = box.endX
                /\ box'.endY = box.endY
                /\ isDragging'
           ELSE /\ box' = box
                /\ ~isDragging'
                /\ viewfinder' = viewfinder
                /\ snapshots' = snapshots
                /\ emitted' = <<>>]_vars

\* C15 witness: an update has arrived after the end of a gesture whose updates
\* had left a negative width (of the canvas handlers only draw emits nothing and
\* leaves isDragging false).
C15_Witness ==
  /\ listening
  /\ ~isDragging
  /\ viewfinderIsBox
  /\ emitted = <<>>
  /\ IsNumber(box.width)
  /\ box.width.n < 0
  /\ IsNumber(box.endX)

\* C16: the point a handler works with is the event's offset on the surface,
\* (offsetX, offsetY), also where an offset is 0, whatever the event's layer
\* coordinates are.
C16_PointIsSurfaceOffset ==
  [][\A evt \in Events :
       /\ start(evt) => (box'.startX = evt.offsetX /\ box'.startY = evt.offsetY)
       /\ stop(evt) => (box'.endX = evt.offsetX /\ box'.endY = evt.offsetY)]_vars

\* The start notifications among what a step emitted.
startNotifications(e) ==
  {i \in 1..Len(e) : e[i].kind = "trigger" /\ e[i].name = "start"}

\* C17: a failed acquisition emits one error notification carrying the failure
\* detail and no start notification, leaves the committed rectangle and the
\* collection as they were and the instance ready for another start; every
\* start that succeeds, a first one or one after failures, installs the
\* full-surface rectangle and emits exactly one start notification.
C17_FailedAcquisitionIsNotFatal ==
  [][/\ \A detail \in Details :
          error(detail) =>
            /\ emitted' = <<triggerWith("error", detail)>>
            /\ startNotifications(emitted') = {}
            /\ viewfinder' = viewfinder
            /\ snapshots' = snapshots
            /\ phase' = "constructed"
     /\ setupCanvas =>
          /\ viewfinder' = fullSurface
          /\ Cardinality(startNotifications(emitted')) = 1
     /\ (startNotifications(emitted') # {}) => setupCanvas]_vars

\* C17 witness: an instance just started by its third call of start, the two
\* calls before it having failed.
C17_Witness ==
  /\ phase = "started"
  /\ calls = 3
  /\ emitted = <<trigger("start")>>
  /\ viewfinder = fullSurface
  /\ snapshots = <<>>

\* C18: two instances are independent: a begin, update, end, reset or extract on
\* one instance leaves the other's drag flag, box, committed rectangle and
\* collection as they were, in both directions and in any interleaving.
C18_InstancesIndependent ==
  [][/\ (\/ \E evt \in Events : start(evt) \/ draw(evt) \/ stop(evt)
         \/ resetViewfinder
         \/ \E callback \in BOOLEAN : takeSnapshot(callback))
          => (other' = other)
     /\ (\/ \E evt \in Events : otherStart(evt) \/ otherDraw(evt) \/ otherStop(evt)
         \/ otherResetViewfinder
         \/ otherTakeSnapshot)
          => /\ isDragging' = isDragging
             /\ box' = box
             /\ viewfinder' = viewfinder
             /\ snapshots' = snapshots]_vars

\* C18 witness: the two instances after interleaved gestures, each with what its
\* own events gave it: a drag from the far corner in progress on one, a drag
\* from the origin to the far corner committed on the other.
C18_Witness ==
  /\ isDragging
  /\ box.startX = Num(SurfaceWidth)
  /\ viewfinder = fullSurface
  /\ ~other.isDragging
  /\ other.viewfinderIsBox
  /\ other.box.startX = Num(0)
  /\ other.box.endX = Num(SurfaceWidth)

\* C19: when start is emitted the committed rectangle is already the
\* full-surface default, and on a started instance, after any drags, resets and
\* extracts, each of its six fields is a defined number.
C19_RectangleAlwaysDefined ==
  /\ (startNotifications(emitted) # {}) => (viewfinder = fullSurface)
  /\ (phase = "started") =>
       \A f \in {"startX", "startY", "endX", "endY", "width", "height"} :
         IsNumber(viewfinder[f])

====
